---- MODULE Spec2Model ----
(***************************************************************************)
(* Codebase context management and retrieval (src/cli/context.py).         *)
(*                                                                         *)
(* Callers (threads) run index_codebase, get_relevant_context,             *)
(* search_codebase and parse_file_with_treesitter against a file tree, a   *)
(* persisted vector store per root directory and three process-wide        *)
(* cached resources.  Every library call at which the callers can be       *)
(* interleaved, or which can raise, is one step.                           *)
(***************************************************************************)
EXTENDS Integers, Sequences, FiniteSets, TLC

\* ------------------------------------------------------------------ bounds
MaxCalls  == 2         \* calls started by the interleaved callers
MaxRuns   == 3         \* index_codebase runs made one after the other
MaxParses == 2         \* parse_file_with_treesitter calls started
MaxEdits  == 1         \* edits of the file tree in one behaviour
MaxInfers == 1         \* infer_target_files calls started
MaxScans  == 2         \* calls started by the single caller
MaxTurns  == 3         \* prompts answered in a chat session
MaxExchanges == 11     \* prompts answered in a long chat session

\* --------------------------------------------------------------- constants
SizeCap == 5000        \* content[:5000]

Procs == {"t1", "t2"}
Roots == {"r1", "r2"}
Files == {"a.py", "b.py"}
Ks    == {1, 2}

None == "None"

Min(a, b) == IF a <= b THEN a ELSE b

\* ------------------------------------------------------------------ strings
Max(S) == CHOOSE x \in S : \A y \in S : y <= x

Char(s, i) == SubSeq(s, i, i)

\*      context_path = Path(context_dir)
VARIABLE context_path    \* [root -> the path the root is given by]

\* str(file_path) of the file f found under the root r
PathStr(file_path) == context_path[file_path[1]] \o "/" \o file_path[2]

\*      os.path.basename(file_path)
Basename(s) ==
    LET slashes == {i \in 1..Len(s) : Char(s, i) = "/"}
    IN  IF slashes = {} THEN s ELSE SubSeq(s, Max(slashes) + 1, Len(s))

\* The character classes of the patterns.
UpperCase == "ABCDEFGHIJKLMNOPQRSTUVWXYZ"
LowerCase == "abcdefghijklmnopqrstuvwxyz"
Digits    == "0123456789"

CharsOf(s) == {Char(s, i) : i \in 1..Len(s)}

AlnumChars == CharsOf(UpperCase) \cup CharsOf(LowerCase) \cup CharsOf(Digits)

WordChars  == AlnumChars \cup {"_"}           \* \w
PathChars  == WordChars \cup {".", "/"}       \* [a-zA-Z0-9_./]
SpaceChars == {" ", "\t", "\n"}               \* \s

IsAlnum(c)    == c \in AlnumChars
IsWordChar(c) == c \in WordChars
IsPathChar(c) == c \in PathChars

LowerOf ==
    [c \in CharsOf(UpperCase) |->
        Char(LowerCase, CHOOSE i \in 1..Len(UpperCase) : Char(UpperCase, i) = c)]

LowerChar(c) == IF c \in DOMAIN LowerOf THEN LowerOf[c] ELSE c

\*      query.lower()
RECURSIVE ToLower(_)
ToLower(s) == IF s = "" THEN "" ELSE LowerChar(Char(s, 1)) \o ToLower(SubSeq(s, 2, Len(s)))

\* The last index of the longest run of characters of a class that starts at
\* i (i - 1 when the character at i is not of the class).
RunEnd(s, i, class) ==
    LET stops == {j \in i..(Len(s) + 1) : j = Len(s) + 1 \/ Char(s, j) \notin class}
    IN  (CHOOSE j \in stops : \A x \in stops : j <= x) - 1

\*      pattern in str(f)
Contains(s, pat) ==
    \E i \in 1..(Len(s) - Len(pat) + 1) : SubSeq(s, i, i + Len(pat) - 1) = pat

\*      str.replace(old, new)
RECURSIVE ReplaceFrom(_, _, _, _)
ReplaceFrom(s, i, old, new) ==
    IF i + Len(old) - 1 > Len(s) THEN SubSeq(s, i, Len(s))
    ELSE IF SubSeq(s, i, i + Len(old) - 1) = old
         THEN new \o ReplaceFrom(s, i + Len(old), old, new)
         ELSE Char(s, i) \o ReplaceFrom(s, i + 1, old, new)

ReplaceAll(s, old, new) == ReplaceFrom(s, 1, old, new)

\* The lower-cased text lq holds the word w at i.
StartsAt(lq, i, w) == i + Len(w) - 1 <= Len(lq) /\ SubSeq(lq, i, i + Len(w) - 1) = w

\* ---------------------------------------------------------------- the tree
\* A file as the operations see it: whether open()/read() succeeds, its
\* top-level definitions in source order, its length in characters, the
\* offsets of its characters that take two bytes in UTF-8, the modules its
\* import statements name (in the order ast.walk meets them), whether
\* ast.parse accepts its text, and its modification time.
NoFile ==
    [present |-> FALSE, readable |-> FALSE, parses |-> FALSE, defs |-> <<>>,
     size |-> 0, wide |-> {}, imports |-> <<>>, syntax |-> FALSE, mtime |-> 0]

\* A top-level definition: its type, its 0-based start line, the character
\* offset and length of its text, where its name stands in the text, and
\* whether decorators wrap it (the child is then a decorated_definition).
Definition(type, line, at, n) ==
    [chunk_type |-> type, start_line |-> line, at |-> at, len |-> n,
     name_at |-> at + (IF type = "function" THEN 4 ELSE 6), name_len |-> 1,
     decorated |-> FALSE]

FunctionDef(line, at, n) == Definition("function", line, at, n)
ClassDef(line, at, n) == Definition("class", line, at, n)
Decorated(d) == [d EXCEPT !.decorated = TRUE]

\* What a file can hold: no definition, two definitions, one definition,
\* source the syntax parse fails on, and a file that cannot be read.
FileBodies ==
    { [readable |-> TRUE,  parses |-> TRUE,  defs |-> <<>>, size |-> 10,
       wide |-> {}, imports |-> <<"a">>],
      [readable |-> TRUE,  parses |-> TRUE,
       defs |-> <<FunctionDef(0, 0, 40), ClassDef(4, 100, 5900)>>, size |-> 6000,
       wide |-> {}, imports |-> <<"b", "os">>],
      [readable |-> TRUE,  parses |-> TRUE,  defs |-> <<FunctionDef(2, 20, 30)>>,
       size |-> 50, wide |-> {}, imports |-> <<>>],
      [readable |-> TRUE,  parses |-> FALSE, defs |-> <<FunctionDef(0, 0, 40)>>,
       size |-> 6000, wide |-> {}, imports |-> <<"b">>],
      [readable |-> FALSE, parses |-> FALSE, defs |-> <<>>, size |-> 10,
       wide |-> {}, imports |-> <<>>] }

MkFile(b, t) ==
    [present |-> TRUE, readable |-> b.readable, parses |-> b.parses, defs |-> b.defs,
     size |-> b.size, wide |-> b.wide, imports |-> b.imports,
     syntax |-> IF "syntax" \in DOMAIN b THEN b.syntax ELSE TRUE, mtime |-> t]

ImportsDespiteError(file) == file.imports

\*      try: tree = ast.parse(code) ... imports.append(...)  except: pass
extract_imports(file) == IF file.syntax THEN file.imports ELSE <<>>

\* ------------------------------------------------- parse_file_with_treesitter
\* The offset in bytes(code, 'utf8') of the character at offset c.
ByteOffset(file, c) == c + Cardinality({w \in file.wide : w < c})

\*      def extract_node_text(node): return code[node.start_byte:node.end_byte]
\* The node's byte offsets index the str: the slice holds the characters
\* from..to-1 of the file, cut at its end.
ExtractNodeText(file, from, to) ==
    [from |-> Min(file.size, ByteOffset(file, from)),
     to   |-> Min(file.size, ByteOffset(file, to))]

\* A whole-file chunk that holds all of the text.
FileChunkUncut(file_path, size, imports) ==
    [chunk_type |-> "file",
     name       |-> [base |-> Basename(PathStr(file_path)), from |-> 0, to |-> 0],
     start_line |-> 0, from |-> 0, to |-> size, len |-> size, imports |-> imports]

\*      CodeChunk(content=code[:5000], chunk_type='file',
\*                name=os.path.basename(file_path), start_line=0, ...)
FileChunk(file_path, size, imports) ==
    [chunk_type |-> "file",
     name       |-> [base |-> Basename(PathStr(file_path)), from |-> 0, to |-> 0],
     start_line |-> 0, from |-> 0, to |-> Min(size, SizeCap),
     len |-> Min(size, SizeCap), imports |-> imports]

\*      if child.type == 'function_definition':  /  elif child.type == 'class_definition':
Extracted(d) == ~d.decorated

\*      CodeChunk(content=extract_node_text(child), chunk_type=...,
\*                name=extract_node_text(name_node), start_line=child.start_point[0], ...)
DefChunk(file, d) ==
    LET text == ExtractNodeText(file, d.at, d.at + d.len)
        name == ExtractNodeText(file, d.name_at, d.name_at + d.name_len)
    IN  [chunk_type |-> d.chunk_type,
         name       |-> [base |-> "", from |-> name.from, to |-> name.to],
         start_line |-> d.start_line, from |-> text.from, to |-> text.to,
         len |-> text.to - text.from, imports |-> extract_imports(file)]

\*      for child in root_node.children: ...
DefChunks(file) ==
    LET ds == SelectSeq(file.defs, Extracted)
    IN  [i \in 1..Len(ds) |-> DefChunk(file, ds[i])]

\* A handler that hands on the imports found before the failure.
FallbackRereadKeepsImports(file_path, chunks, file, read2Ok) ==
    IF read2Ok
    THEN [raised |-> FALSE,
          chunks |-> Append(chunks, FileChunk(file_path, file.size, extract_imports(file)))]
    ELSE [raised |-> TRUE, chunks |-> chunks]

\* The handler of the inner try: the fallback re-read either yields the
\* whole-file chunk, with imports=[], or raises.
FallbackReread(file_path, chunks, file, read2Ok) ==
    IF read2Ok
    THEN [raised |-> FALSE, chunks |-> Append(chunks, FileChunk(file_path, file.size, <<>>))]
    ELSE [raised |-> TRUE, chunks |-> chunks]

\* The inner handler left out: the failure of the re-read leaves the function.
InnerExceptMissing(r) == r

\*      except: pass
InnerExcept(r) == [raised |-> FALSE, chunks |-> r.chunks]

\* The body of the outer try: read, extract_imports (which swallows its own
\* failures), get_parser, parser.parse, the loop over the root's children and
\* the whole-file chunk when the loop found nothing.
TryBody(file_path, file, read1Ok, parserOk, parseOk) ==
    IF ~read1Ok \/ ~parserOk \/ ~parseOk
    THEN [raised |-> TRUE, chunks |-> <<>>]
    ELSE IF Len(DefChunks(file)) > 0
         THEN [raised |-> FALSE, chunks |-> DefChunks(file)]
         ELSE [raised |-> FALSE,
               chunks |-> <<FileChunk(file_path, file.size, extract_imports(file))>>]

ParseFile(file_path, file, read1Ok, parserOk, parseOk, read2Ok) ==
    LET body == TryBody(file_path, file, read1Ok, parserOk, parseOk)
    IN  IF body.raised
        THEN InnerExcept(FallbackReread(file_path, body.chunks, file, read2Ok))
        ELSE body


\* ------------------------------------------------------------------- state
VARIABLES
    tree,             \* [root -> [file -> file]]: the directories on disk
    parserOk,         \* whether Language()/Parser() can be built in this process
    store,            \* [root -> collection "codebase" of the store under that root]
    chroma_client,    \* _chroma_client: None, or the root its store lives under
    embedding_model,  \* _embedding_model is not None
    parser,           \* _parser is not None
    built,            \* how often each cached resource was constructed
    calls, edits,     \* calls started, tree edits made
    pc, op, root, k,  \* per caller: position, operation, context_dir, max_chunks
    target,           \* per caller: file_path of parse_file_with_treesitter
    client,           \* per caller: the client its getter returned
    coll,             \* per caller: the collection handle it holds
    batch,            \* per caller: all_ids/all_chunks of index_codebase
    code,             \* per caller: the text parse_file_with_treesitter has read
    chunks,           \* per caller: chunks of parse_file_with_treesitter
    failed,           \* per caller: the calls that raised and were caught
    rebuilds,         \* per caller: index_codebase runs its query has started
    midRebuild,       \* per caller: its query read a collection still being built
    had,              \* per caller: its root's collection existed when the call began
    query,            \* per caller: the query text of its call
    target_files,     \* per caller: the target_files list of its call
    runs,             \* the last two index_codebase runs that returned, newest first
    ret,              \* per caller: what its last call returned or raised
    module_map,       \* per caller: module_to_file of build_file_dependency_graph
    dependency_graph, \* per caller: the graph build_file_dependency_graph has built
    chat_pc,          \* start_chat_session: where the loop stands
    user_input,       \* the line the prompt returned
    conversation_history,  \* the list of {"role", "content"} messages
    turns,            \* prompts answered so far
    cleared,          \* /clear was handled and no turn has completed since
    log,              \* every message a completed turn appended, oldest first
    response,         \* the fragments received, joined
    stream,           \* the fragments generate_response_streaming has yet to yield
    request,          \* the arguments of the running generate_response_streaming
    in_code_block, code_block_started, code_buffer, shown_codes, plain_text_buffer,
    printed,          \* what console.print has shown of the current response
    received,         \* the fragments of the current response, as they arrived
    proposals,        \* what propose_file_changes returned
    confirm_response, \* the answer to 'Apply these changes?'
    todo,             \* the proposals the write loop has yet to visit
    written           \* the files write_file has written, each with its turn

loopVars == <<user_input, conversation_history, turns, cleared, log>>
respVars == <<response, stream, request, in_code_block, code_block_started, code_buffer,
              shown_codes, plain_text_buffer, printed, received>>
applyVars == <<proposals, confirm_response, todo, written>>
chatVars == <<chat_pc, loopVars, respVars, applyVars>>

graphVars == <<module_map, dependency_graph>>

NoGraph == [f \in {} |-> <<>>]

coreVars == <<tree, context_path, parserOk, store, chroma_client, embedding_model, parser, built,
              calls, edits, pc, op, root, k, target, client, coll, batch, code,
              chunks, failed, rebuilds, midRebuild, had, query, target_files, runs, ret,
              graphVars>>

vars == <<coreVars, chatVars>>

envVars == <<tree, context_path, parserOk, edits>>
storeVars == <<store>>
cacheVars == <<chroma_client, embedding_model, parser, built>>
askVars == <<query, target_files>>

Resources == {"embedding_model", "chroma_client", "parser"}

NoColl == [store |-> None, gen |-> 0]
NoRet == [kind |-> "none", val |-> <<>>]

InitTree ==
    [r \in Roots |->
        IF r = "r1"
        THEN [f \in Files |->
                IF f = "a.py"
                THEN MkFile([readable |-> TRUE, parses |-> TRUE,
                             defs |-> <<FunctionDef(0, 0, 40), ClassDef(4, 100, 5900)>>,
                             size |-> 6000, wide |-> {}, imports |-> <<"b", "os">>], 0)
                ELSE MkFile([readable |-> TRUE, parses |-> TRUE, defs |-> <<>>,
                             size |-> 10, wide |-> {}, imports |-> <<"a">>], 0)]
        ELSE [f \in Files |->
                IF f = "a.py"
                THEN MkFile([readable |-> TRUE, parses |-> TRUE,
                             defs |-> <<FunctionDef(2, 20, 30)>>, size |-> 50,
                             wide |-> {}, imports |-> <<>>], 0)
                ELSE NoFile]]

\* start_chat_session before its first prompt: conversation_history = [].
NoRequest == [query |-> "", history |-> <<>>]

InitChat ==
    /\ chat_pc = "prompt"
    /\ user_input = ""
    /\ conversation_history = <<>>
    /\ turns = 0
    /\ cleared = FALSE
    /\ log = <<>>
    /\ response = ""
    /\ stream = <<>>
    /\ request = NoRequest
    /\ in_code_block = FALSE
    /\ code_block_started = FALSE
    /\ code_buffer = ""
    /\ shown_codes = {}
    /\ plain_text_buffer = ""
    /\ printed = <<>>
    /\ received = <<>>
    /\ proposals = <<>>
    /\ confirm_response = ""
    /\ todo = <<>>
    /\ written = {}

\* Nothing has been called: no resource is cached, no store holds a collection.
InitState ==
    /\ parserOk \in BOOLEAN
    /\ store = [r \in Roots |-> [exists |-> FALSE, gen |-> 0, entries |-> {}]]
    /\ chroma_client = None
    /\ embedding_model = FALSE
    /\ parser = FALSE
    /\ built = [x \in Resources |-> 0]
    /\ calls = 0
    /\ edits = 0
    /\ pc = [p \in Procs |-> "idle"]
    /\ op = [p \in Procs |-> "none"]
    /\ root = [p \in Procs |-> "r1"]
    /\ k = [p \in Procs |-> 1]
    /\ target = [p \in Procs |-> "a.py"]
    /\ client = [p \in Procs |-> None]
    /\ coll = [p \in Procs |-> NoColl]
    /\ batch = [p \in Procs |-> {}]
    /\ code = [p \in Procs |-> NoFile]
    /\ chunks = [p \in Procs |-> <<>>]
    /\ failed = [p \in Procs |-> {}]
    /\ rebuilds = [p \in Procs |-> 0]
    /\ midRebuild = [p \in Procs |-> FALSE]
    /\ had = [p \in Procs |-> FALSE]
    /\ query = [p \in Procs |-> ""]
    /\ target_files = [p \in Procs |-> <<>>]
    /\ runs = <<>>
    /\ ret = [p \in Procs |-> NoRet]
    /\ module_map = [p \in Procs |-> NoGraph]
    /\ dependency_graph = [p \in Procs |-> NoGraph]
    /\ InitChat

\* Each root is given by a short relative path.
InitRest == context_path = [r \in Roots |-> r] /\ InitState

Init == tree = InitTree /\ InitRest

\* --------------------------------------------------------- control transfer
Goto(p, l) == pc' = [pc EXCEPT ![p] = l]

\* An exception leaves the operation: the call is over and the caller holds
\* the exception (named after the step that raised it) instead of a value.
Raise(p) ==
    /\ pc' = [pc EXCEPT ![p] = "idle"]
    /\ ret' = [ret EXCEPT ![p] = [kind |-> "raise", val |-> <<pc[p]>>]]

Return(p, kind, val) ==
    /\ pc' = [pc EXCEPT ![p] = "idle"]
    /\ ret' = [ret EXCEPT ![p] = [kind |-> kind, val |-> val]]

\* A caller enters an operation with its arguments.
Enter(p, o, r, n, f, q, l) ==
    /\ pc[p] = "idle"
    /\ calls' = calls + 1
    /\ op' = [op EXCEPT ![p] = o]
    /\ root' = [root EXCEPT ![p] = r]
    /\ k' = [k EXCEPT ![p] = n]
    /\ target' = [target EXCEPT ![p] = f]
    /\ client' = [client EXCEPT ![p] = None]
    /\ coll' = [coll EXCEPT ![p] = NoColl]
    /\ batch' = [batch EXCEPT ![p] = {}]
    /\ code' = [code EXCEPT ![p] = NoFile]
    /\ chunks' = [chunks EXCEPT ![p] = <<>>]
    /\ failed' = [failed EXCEPT ![p] = {}]
    /\ rebuilds' = [rebuilds EXCEPT ![p] = 0]
    /\ midRebuild' = [midRebuild EXCEPT ![p] = FALSE]
    /\ had' = [had EXCEPT ![p] = store[r].exists]
    /\ query' = [query EXCEPT ![p] = q]
    /\ target_files' = [target_files EXCEPT ![p] = <<>>]
    /\ ret' = [ret EXCEPT ![p] = NoRet]
    /\ module_map' = [module_map EXCEPT ![p] = NoGraph]
    /\ dependency_graph' = [dependency_graph EXCEPT ![p] = NoGraph]
    /\ pc' = [pc EXCEPT ![p] = l]
    /\ UNCHANGED <<envVars, chatVars, storeVars, cacheVars, runs>>

CallIndex(p) ==
    \E r \in Roots : Enter(p, "index_codebase", r, 1, "a.py", "", "i_client")

\* What the user asks: a question, and a request that names a file.
ContextQueries == {"explain the code", "create calc.py"}

CallContext(p) ==
    \E r \in Roots, n \in Ks, q \in ContextQueries :
        Enter(p, "get_relevant_context", r, n, "a.py", q, "q_client")

CallSearch(p) ==
    \E r \in Roots, n \in Ks : Enter(p, "search_codebase", r, n, "a.py", "", "q_client")

CallParse(p) ==
    \E r \in Roots : \E f \in DOMAIN tree[r] :
        Enter(p, "parse_file_with_treesitter", r, 1, f, "", "p_read")


\* ------------------------------------------------------ the cached resources
\*      if _chroma_client is None:  ...  return _chroma_client
ClientCheck(p, here, new, next) ==
    /\ pc[p] = here
    /\ IF chroma_client = None
       THEN Goto(p, new) /\ UNCHANGED client
       ELSE Goto(p, next) /\ client' = [client EXCEPT ![p] = chroma_client]
    /\ UNCHANGED <<envVars, askVars, chatVars, graphVars, storeVars, cacheVars, calls, op, root, k, target, coll,
                   batch, code, chunks, failed, rebuilds, midRebuild, ret, had, runs>>

\*      os.makedirs(db_path); _chroma_client = chromadb.PersistentClient(path=db_path)
ClientNew(p, here, next) ==
    /\ pc[p] = here
    /\ \E ok \in BOOLEAN :
        IF ok
        THEN /\ chroma_client' = root[p]
             /\ built' = [built EXCEPT !["chroma_client"] = @ + 1]
             /\ client' = [client EXCEPT ![p] = root[p]]
             /\ Goto(p, next)
             /\ UNCHANGED ret
        ELSE /\ Raise(p)
             /\ UNCHANGED <<chroma_client, built, client>>
    /\ UNCHANGED <<envVars, askVars, chatVars, graphVars, storeVars, embedding_model, parser, calls, op, root, k,
                   target, coll, batch, code, chunks, failed, rebuilds, midRebuild, had, runs>>

\*      if _embedding_model is None:  ...  return _embedding_model
ModelCheck(p, here, new, next) ==
    /\ pc[p] = here
    /\ IF embedding_model THEN Goto(p, next) ELSE Goto(p, new)
    /\ UNCHANGED <<envVars, chatVars, graphVars, query, storeVars, cacheVars, calls, op, root, k, target, client,
                   coll, batch, code, chunks, failed, rebuilds, midRebuild, ret, had, runs>>

\*      _embedding_model = SentenceTransformer('all-MiniLM-L6-v2')
ModelNew(p, here, next) ==
    /\ pc[p] = here
    /\ \E ok \in BOOLEAN :
        IF ok
        THEN /\ embedding_model' = TRUE
             /\ built' = [built EXCEPT !["embedding_model"] = @ + 1]
             /\ Goto(p, next)
             /\ UNCHANGED ret
        ELSE /\ Raise(p)
             /\ UNCHANGED <<embedding_model, built>>
    /\ UNCHANGED <<envVars, askVars, chatVars, graphVars, storeVars, chroma_client, parser, calls, op, root, k,
                   target, client, coll, batch, code, chunks, failed, rebuilds,
                   midRebuild, had, runs>>

\* ------------------------------------------------------------ the collection
Handle(c) == [store |-> c, gen |-> store[c].gen]

\* A handle is live while the collection it was taken from still exists.
Live(h) == h.store # None /\ store[h.store].exists /\ store[h.store].gen = h.gen

\* A delete that drops the name and keeps the data.
DeleteKeepsEntries(s) == [s EXCEPT !.exists = FALSE]

DeleteCollection(s) == [exists |-> FALSE, gen |-> s.gen, entries |-> {}]

CreateCollection(s) == [s EXCEPT !.exists = TRUE, !.gen = @ + 1]

AddBatch(s, b) == [s EXCEPT !.entries = @ \cup b]

\* -------------------------------------------------------------- index_codebase
PresentFiles(r) == {f \in DOMAIN tree[r] : tree[r][f].present}

\* ignore_patterns of index_codebase
IndexIgnorePatterns ==
    {"__pycache__", ".venv", "venv", ".git", "node_modules", ".pytest_cache",
     ".mypy_cache", ".code_assistant_db"}

\* ignore_patterns of get_simple_context
SimpleIgnorePatterns ==
    {"__pycache__", ".venv", "venv", ".git", "node_modules", ".pytest_cache",
     ".mypy_cache"}

\* ignore_patterns of build_file_dependency_graph
GraphIgnorePatterns ==
    {"__pycache__", ".venv", "venv", ".git", "node_modules", ".pytest_cache",
     ".mypy_cache"}

\*      any(pattern in str(f) for pattern in ignore_patterns)
Ignored(file_path, patterns) == \E pat \in patterns : Contains(PathStr(file_path), pat)

\*      filtered_files = [f for f in python_files if not any(pattern in str(f) ...)]
FilteredFiles(r) == {f \in PresentFiles(r) : ~Ignored(<<r, f>>, IndexIgnorePatterns)}

\* An id numbered by a counter that runs on across the calls.
ChunkIdRunning(path, chunk, idx) == <<path, chunk.start_line, idx + calls>>

\*      chunk_id = f"{file_path}:{chunk.start_line}:{chunk_idx}"
ChunkId(path, chunk, idx) == <<path, chunk.start_line, idx>>

FileEntries(r, f) ==
    LET file == tree[r][f]
        cs == ParseFile(<<r, f>>, file, file.readable, parserOk, file.parses,
                         file.readable).chunks
    IN  { [id         |-> ChunkId(<<r, f>>, cs[i], i - 1),
           file_path  |-> <<r, f>>,
           chunk_type |-> cs[i].chunk_type,
           len        |-> cs[i].len] : i \in 1..Len(cs) }

\*      for file_path in filtered_files: ... all_ids.append(chunk_id)
IndexBatch(r) == UNION {FileEntries(r, f) : f \in FilteredFiles(r)}

\* get_parser() runs in every file that could be read.
ParserAsked(r) == \E f \in FilteredFiles(r) : tree[r][f].readable

IndexGetClient(p) == ClientCheck(p, "i_client", "i_client_new", "i_delete")

IndexNewClient(p) == ClientNew(p, "i_client_new", "i_delete")

\*      try: client.delete_collection(collection_name)   except: pass
IndexDelete(p) ==
    /\ pc[p] = "i_delete"
    /\ \E ok \in BOOLEAN :
        store' = IF ok /\ store[client[p]].exists
                 THEN [store EXCEPT ![client[p]] = DeleteCollection(@)]
                 ELSE store
    /\ Goto(p, "i_create")
    /\ UNCHANGED <<envVars, askVars, chatVars, graphVars, cacheVars, calls, op, root, k, target, client, coll, batch,
                   code, chunks, failed, rebuilds, midRebuild, ret, had, runs>>

\*      collection = client.create_collection(name=collection_name, ...)
IndexCreate(p) ==
    /\ pc[p] = "i_create"
    /\ \E ok \in BOOLEAN :
        IF ok /\ ~store[client[p]].exists
        THEN /\ store' = [store EXCEPT ![client[p]] = CreateCollection(@)]
             /\ coll' = [coll EXCEPT ![p] = [store |-> client[p],
                                             gen |-> store[client[p]].gen + 1]]
             /\ Goto(p, "i_model")
             /\ UNCHANGED ret
        ELSE /\ Raise(p)
             /\ UNCHANGED <<store, coll>>
    /\ UNCHANGED <<envVars, askVars, chatVars, graphVars, cacheVars, calls, op, root, k, target, client, batch, code,
                   chunks, failed, rebuilds, midRebuild, had, runs>>

IndexGetModel(p) ==
    ModelCheck(p, "i_model", "i_model_new", "i_build") /\ UNCHANGED target_files

IndexNewModel(p) == ModelNew(p, "i_model_new", "i_build")

\* The loop over filtered_files: parse every file, embed every chunk.
IndexBuild(p) ==
    /\ pc[p] = "i_build"
    /\ LET b == IndexBatch(root[p])
           makes == ParserAsked(root[p]) /\ ~parser /\ parserOk
       IN  /\ parser' = (parser \/ makes)
           /\ built' = [built EXCEPT !["parser"] = IF makes THEN @ + 1 ELSE @]
           /\ \E ok \in BOOLEAN :
                /\ ok \/ b # {}
                /\ IF ok
                   THEN /\ batch' = [batch EXCEPT ![p] = b]
                        /\ Goto(p, "i_add")
                        /\ UNCHANGED ret
                   ELSE /\ Raise(p)
                        /\ UNCHANGED batch
    /\ UNCHANGED <<envVars, askVars, chatVars, graphVars, storeVars, chroma_client, embedding_model, calls, op, root,
                   k, target, client, coll, code, chunks, failed, rebuilds, midRebuild, had, runs>>

\* What a run leaves behind: collection.count() and the ids, for the tree it read.
RunRecord(p, s) ==
    [root  |-> root[p],
     files |-> tree[root[p]],
     count |-> Cardinality(s.entries),
     ids   |-> {e.id : e \in s.entries}]

\*      return collection
IndexReturn(p, s) ==
    IF op[p] = "index_codebase"
    THEN /\ Return(p, "collection", <<coll[p]>>)
         /\ runs' = <<RunRecord(p, s)>> \o SubSeq(runs, 1, Min(1, Len(runs)))
    ELSE /\ Goto(p, "q_model")
         /\ UNCHANGED <<ret, runs>>

\*      if all_chunks: collection.add(...)
IndexAdd(p) ==
    /\ pc[p] = "i_add"
    /\ IF batch[p] = {}
       THEN /\ UNCHANGED store
            /\ IndexReturn(p, store[coll[p].store])
       ELSE \E ok \in BOOLEAN :
              IF ok /\ Live(coll[p])
              THEN /\ store' = [store EXCEPT ![coll[p].store] = AddBatch(@, batch[p])]
                   /\ IndexReturn(p, AddBatch(store[coll[p].store], batch[p]))
              ELSE Raise(p) /\ UNCHANGED <<store, runs>>
    /\ UNCHANGED <<envVars, askVars, chatVars, graphVars, cacheVars, calls, op, root, k, target, client, coll, batch,
                   code, chunks, failed, rebuilds, midRebuild, had>>

\* ---------------------------------------------------------- infer_target_files
\* The verbs of file_patterns, each followed by \s+([a-zA-Z0-9_./]+\.[a-zA-Z0-9]+):
\*      r'create\s+([a-zA-Z0-9_./]+\.[a-zA-Z0-9]+)', ... edit, modify, update, in, file
file_patterns == <<"create", "edit", "modify", "update", "in", "file">>

\* One attempt of the regex engine at position i of the query: the verb in any
\* case, white space, then the group.  The first part of the group is greedy:
\* it ends before the last dot of the run of path characters that an
\* alphanumeric character follows, and the extension runs on as far as it can.
MatchAt(verb, q, lq, i) ==
    LET a    == i + Len(verb)
        b    == RunEnd(q, a, SpaceChars) + 1
        e    == RunEnd(q, b, PathChars)
        dots == {d \in (b + 1)..(e - 1) : Char(q, d) = "." /\ IsAlnum(Char(q, d + 1))}
        end  == RunEnd(q, Max(dots) + 1, AlnumChars)
    IN  IF StartsAt(lq, i, verb) /\ b > a /\ dots # {}
        THEN [ok |-> TRUE, path |-> SubSeq(q, b, end), end |-> end]
        ELSE [ok |-> FALSE, path |-> "", end |-> i]

\* re.search in the place of re.findall: the first match only.
RECURSIVE FindFirst(_, _, _, _)
FindFirst(verb, q, lq, i) ==
    IF i > Len(q) THEN <<>>
    ELSE LET m == MatchAt(verb, q, lq, i)
         IN  IF m.ok THEN <<m.path>> ELSE FindFirst(verb, q, lq, i + 1)

\*      matches = re.findall(pattern, query, re.IGNORECASE)
\* The scan goes on behind each match, so matches do not overlap.
RECURSIVE FindAll(_, _, _, _)
FindAll(verb, q, lq, i) ==
    IF i > Len(q) THEN <<>>
    ELSE LET m == MatchAt(verb, q, lq, i)
         IN  IF m.ok THEN <<m.path>> \o FindAll(verb, q, lq, m.end + 1)
             ELSE FindAll(verb, q, lq, i + 1)

\*      for pattern in file_patterns: target_files.extend(matches)
RECURSIVE ExplicitFrom(_, _, _)
ExplicitFrom(q, lq, n) ==
    IF n > Len(file_patterns) THEN <<>>
    ELSE FindAll(file_patterns[n], q, lq, 1) \o ExplicitFrom(q, lq, n + 1)

ExplicitMentions(q) == ExplicitFrom(q, ToLower(q), 1)

\* keywords_to_files: each pattern as the words it stands for between \b and
\* \b, with its candidates in listed order.
keywords_to_files ==
    << [words |-> {"calculator"},             files |-> <<"calc.py", "calculator.py">>],
       [words |-> {"auth", "authentication"}, files |-> <<"auth.py", "authentication.py">>],
       [words |-> {"config", "configuration"}, files |-> <<"config.py", "settings.py">>],
       [words |-> {"util", "utils"},          files |-> <<"utils.py", "helpers.py">>],
       [words |-> {"test", "tests"},          files |-> <<"test.py", "tests.py">>],
       [words |-> {"model", "models"},        files |-> <<"model.py", "models.py">>],
       [words |-> {"view", "views"},          files |-> <<"view.py", "views.py">>],
       [words |-> {"api"},                    files |-> <<"api.py", "routes.py">>],
       [words |-> {"database"},               files |-> <<"database.py", "db.py">>] >>

\* \bw\b at position i: no word character right before or right behind w.
WordAt(lq, i, w) ==
    /\ StartsAt(lq, i, w)
    /\ i = 1 \/ ~IsWordChar(Char(lq, i - 1))
    /\ i + Len(w) > Len(lq) \/ ~IsWordChar(Char(lq, i + Len(w)))

\*      if re.search(pattern, query_lower):
KeywordMatches(words, lq) == \E w \in words : \E i \in 1..Len(lq) : WordAt(lq, i, w)

\*      os.path.exists(os.path.join(context_dir, candidate))
Exists(r, path) == path \in DOMAIN tree[r] /\ tree[r][path].present

\* The first candidate, on disk or not.
FirstCandidate(r, files) == <<files[1]>>

\*      for candidate in candidates: if os.path.exists(...): append; break
FirstExisting(r, files) ==
    LET found == {i \in 1..Len(files) : Exists(r, files[i])}
    IN  IF found = {} THEN <<>>
        ELSE <<files[CHOOSE i \in found : \A j \in found : i <= j]>>

\*      for keyword_pattern, candidates in keywords_to_files.items(): ...
RECURSIVE KeywordFrom(_, _, _)
KeywordFrom(lq, r, n) ==
    IF n > Len(keywords_to_files) THEN <<>>
    ELSE (IF KeywordMatches(keywords_to_files[n].words, lq)
          THEN FirstExisting(r, keywords_to_files[n].files) ELSE <<>>)
         \o KeywordFrom(lq, r, n + 1)

KeywordTargets(q, r) == KeywordFrom(ToLower(q), r, 1)

\* target_files when both loops are through.
TargetList(q, r) == ExplicitMentions(q) \o KeywordTargets(q, r)

Range(seq) == {seq[i] : i \in 1..Len(seq)}

\* The list handed back as it is.
KeepDuplicates(list) == {list}

\*      return list(set(target_files))
\* The paths of the list, once each, in an order the set decides.
ListOfSet(list) ==
    LET S == Range(list)
    IN  {s \in [1..Cardinality(S) -> S] :
            \A i, j \in 1..Cardinality(S) : i # j => s[i] # s[j]}

infer_target_files(q, r) == LET list == TargetList(q, r) IN ListOfSet(list)

\* Queries put to infer_target_files on its own: the tests' queries, several
\* mentions in one query, keywords with and without a file name, tokens that
\* are no paths, and 'create X' for each of PathTokens.
PathTokens ==
    {"calc.py", "src/app/main.py", "x_1.tar.gz", "../x.py", "/etc/x.py", "Auth.PY"}

InferQueries ==
    { "create test_utils.py with helpers",
      "edit model.py to improve quality",
      "add authentication features",
      "Create src/Auth.py and update auth.py in utils/helper.py",
      "create a.py create b.py then edit a.py",
      "edit auth.py, then modify auth.py",
      "fix the AUTH flow",
      "user_auth utils",
      "main utils.py",
      "create .env",
      "create README",
      "file\tnotes.txt.",
      "" }
    \cup {"create " \o x : x \in PathTokens}

CallInfer(p) ==
    \E r \in Roots, q \in InferQueries :
        Enter(p, "infer_target_files", r, 1, "a.py", q, "t_infer")

\* infer_target_files from its first line to its return.
InferRun(p) ==
    /\ pc[p] = "t_infer"
    /\ target_files' = [target_files EXCEPT ![p] = TargetList(query[p], root[p])]
    /\ \E list \in infer_target_files(query[p], root[p]) : Return(p, "targets", list)
    /\ UNCHANGED <<envVars, chatVars, graphVars, query, storeVars, cacheVars, calls, op, root, k, target,
                   client, coll, batch, code, chunks, failed, rebuilds, midRebuild,
                   had, runs>>

\* ------------------------------------- get_relevant_context, search_codebase
QueryGetClient(p) == ClientCheck(p, "q_client", "q_client_new", "q_lookup")

QueryNewClient(p) == ClientNew(p, "q_client_new", "q_lookup")

\*      try: collection = client.get_collection(collection_name)
\*      except: collection = index_codebase(context_dir)
QueryLookup(p) ==
    /\ pc[p] = "q_lookup"
    /\ \E ok \in BOOLEAN :
        IF ok /\ store[client[p]].exists
        THEN /\ coll' = [coll EXCEPT ![p] = Handle(client[p])]
             /\ Goto(p, "q_model")
             /\ UNCHANGED <<failed, rebuilds>>
        ELSE /\ failed' = [failed EXCEPT ![p] = @ \cup {"lookup"}]
             /\ rebuilds' = [rebuilds EXCEPT ![p] = @ + 1]
             /\ Goto(p, "i_client")
             /\ UNCHANGED coll
    /\ UNCHANGED <<envVars, askVars, chatVars, graphVars, storeVars, cacheVars, calls, op, root, k, target, client,
                   batch, code, chunks, midRebuild, ret, had, runs>>

\*      target_files = infer_target_files(query, context_dir)
\*      model = get_embedding_model()
QueryGetModel(p) ==
    /\ ModelCheck(p, "q_model", "q_model_new", "q_encode")
    /\ IF op[p] = "get_relevant_context"
       THEN \E list \in infer_target_files(query[p], root[p]) :
                target_files' = [target_files EXCEPT ![p] = list]
       ELSE UNCHANGED target_files

QueryNewModel(p) == ModelNew(p, "q_model_new", "q_encode")

\*      query_embedding = model.encode([query])[0].tolist()
QueryEncode(p) ==
    /\ pc[p] = "q_encode"
    /\ \E ok \in BOOLEAN :
        IF ok THEN Goto(p, "q_query") /\ UNCHANGED ret
              ELSE Raise(p)
    /\ UNCHANGED <<envVars, askVars, chatVars, graphVars, storeVars, cacheVars, calls, op, root, k, target, client,
                   coll, batch, code, chunks, failed, rebuilds, midRebuild, had, runs>>

\* The n nearest entries (all of them when there are fewer): which ones they
\* are depends on the embeddings alone.
TopK(entries, n) == {S \in SUBSET entries : Cardinality(S) = Min(n, Cardinality(entries))}

\* What a rebuild that has created its collection has still to add to it.
Pending(q) ==
    IF pc[q] \in {"i_model", "i_model_new", "i_build"} THEN IndexBatch(root[q])
    ELSE IF pc[q] = "i_add" THEN batch[q]
    ELSE {}

BeingBuilt(h) == \E q \in Procs : coll[q] = h /\ Pending(q) # {}

\*      if target_files: context_parts.append("# IMPORTANT: Inferred target files ...")
\*          for tf in target_files: context_parts.append(f"#   - {tf}")
\* A context without the block.
NoInstructionBlock(files) == <<>>

\* The paths the instruction block names; without a path there is no block.
InstructionBlock(files) == files

\*      results = collection.query(query_embeddings=[...], n_results=max_chunks)
\*      ...  return "\n".join(context_parts)   /   return search_results
QueryRun(p) ==
    /\ pc[p] = "q_query"
    /\ \E ok \in BOOLEAN :
        IF ok /\ Live(coll[p])
        THEN /\ \E docs \in TopK(store[coll[p].store].entries, k[p]) :
                  IF op[p] = "search_codebase"
                  THEN Return(p, "results", <<docs>>)
                  ELSE Return(p, "context", <<docs, InstructionBlock(target_files[p])>>)
             /\ midRebuild' = [midRebuild EXCEPT ![p] = BeingBuilt(coll[p])]
             /\ UNCHANGED failed
        ELSE /\ failed' = [failed EXCEPT ![p] = @ \cup {"query"}]
             /\ Goto(p, "q_fallback")
             /\ UNCHANGED <<midRebuild, ret>>
    /\ UNCHANGED <<envVars, askVars, chatVars, graphVars, storeVars, cacheVars, calls, op, root, k, target, client,
                   coll, batch, code, chunks, rebuilds, had, runs>>

\* ---------------------------------------------------------- get_simple_context
Orders(S) ==
    {s \in [1..Cardinality(S) -> S] : \A i, j \in 1..Cardinality(S) : i # j => s[i] # s[j]}

SimpleFiltered(r) == {f \in PresentFiles(r) : ~Ignored(<<r, f>>, SimpleIgnorePatterns)}

\*      filtered_files.sort(key=lambda f: f.stat().st_mtime, reverse=True)
RecencyOrders(r) ==
    {s \in Orders(SimpleFiltered(r)) :
        \A i, j \in 1..Len(s) : i < j => tree[r][s[i]].mtime >= tree[r][s[j]].mtime}

\*      content = content[:5000] + "\n\n# ... (truncated)"
\*      context_parts.append(f"# File: {relative_path}\n{content}")
FilePart(r, f) ==
    [file      |-> f,
     text      |-> Min(tree[r][f].size, SizeCap),
     truncated |-> tree[r][f].size > SizeCap]

RECURSIVE ReadParts(_, _)
ReadParts(r, fs) ==
    IF fs = <<>> THEN <<>>
    ELSE IF tree[r][Head(fs)].readable
         THEN <<FilePart(r, Head(fs))>> \o ReadParts(r, Tail(fs))
         ELSE ReadParts(r, Tail(fs))

\*      selected_files = filtered_files[:max_files]
SimpleContext(r, order, n) == ReadParts(r, SubSeq(order, 1, Min(n, Len(order))))

\*      except Exception as e: return get_simple_context(query, context_dir, max_chunks)
ContextFallback(p) ==
    /\ pc[p] = "q_fallback"
    /\ op[p] = "get_relevant_context"
    /\ \E statOk \in BOOLEAN :
        /\ statOk \/ SimpleFiltered(root[p]) # {}
        /\ IF statOk
           THEN \E order \in RecencyOrders(root[p]) :
                    Return(p, "fallback", SimpleContext(root[p], order, k[p]))
           ELSE Raise(p)
    /\ UNCHANGED <<envVars, askVars, chatVars, graphVars, storeVars, cacheVars, calls, op, root, k, target, client,
                   coll, batch, code, chunks, failed, rebuilds, midRebuild, had, runs>>

\*      for file in python_files[:max_results]: ... if query.lower() in content.lower()
SearchFallback(p) ==
    /\ pc[p] = "q_fallback"
    /\ op[p] = "search_codebase"
    /\ \E order \in Orders(PresentFiles(root[p])) :
        LET seen == {order[i] : i \in 1..Min(k[p], Len(order))}
        IN  \E hits \in SUBSET {f \in seen : tree[root[p]][f].readable} :
                Return(p, "keyword", <<hits>>)
    /\ UNCHANGED <<envVars, askVars, chatVars, graphVars, storeVars, cacheVars, calls, op, root, k, target, client,
                   coll, batch, code, chunks, failed, rebuilds, midRebuild, had, runs>>

\* ------------------------------------------------ build_file_dependency_graph
GraphFiltered(r) == {f \in PresentFiles(r) : ~Ignored(<<r, f>>, GraphIgnorePatterns)}

\*      module_name = str(rel_path).replace('.py', '').replace('/', '.')
ModuleName(f) == ReplaceAll(ReplaceAll(f, ".py", ""), "/", ".")

\*      for file_path in filtered_files: module_to_file[module_name] = str(file_path)
\* Of two files with one module name the one found later stays.
ModuleMaps(r) ==
    LET names == {ModuleName(f) : f \in GraphFiltered(r)}
    IN  {m \in [names -> GraphFiltered(r)] : \A n \in names : ModuleName(m[n]) = n}

DependenciesUnresolved(imports, module_to_file) == imports

\*      for imp in imports: if imp in module_to_file: dependencies.append(...)
Dependencies(imports, module_to_file) ==
    LET local == SelectSeq(imports, LAMBDA imp : imp \in DOMAIN module_to_file)
    IN  [i \in 1..Len(local) |-> module_to_file[local[i]]]

\*      dependency_graph[str(file_path)] = dependencies   /   except: ... = []
DependencyGraph(r, module_to_file) ==
    [f \in GraphFiltered(r) |->
        IF tree[r][f].readable
        THEN Dependencies(extract_imports(tree[r][f]), module_to_file)
        ELSE <<>>]

CallGraph(p) ==
    \E r \in Roots : Enter(p, "build_file_dependency_graph", r, 1, "a.py", "", "g_build")

\* The two loops file by file: the first fills module_to_file, the second
\* adds one entry of dependency_graph per pass.
GraphBuild(p) ==
    /\ pc[p] = "g_build"
    /\ \E m \in ModuleMaps(root[p]) : module_map' = [module_map EXCEPT ![p] = m]
    /\ Goto(p, "g_files")
    /\ UNCHANGED <<envVars, askVars, chatVars, dependency_graph, storeVars, cacheVars, calls,
                   op, root, k, target, client, coll, batch, code, chunks, failed,
                   rebuilds, midRebuild, ret, had, runs>>

GraphFile(p) ==
    /\ pc[p] = "g_files"
    /\ \E file_path \in GraphFiltered(root[p]) \ DOMAIN dependency_graph[p] :
          dependency_graph' =
            [dependency_graph EXCEPT ![p] =
                [f \in DOMAIN @ \cup {file_path} |->
                    IF f = file_path
                    THEN DependencyGraph(root[p], module_map[p])[file_path]
                    ELSE @[f]]]
    /\ Goto(p, "g_files")
    /\ UNCHANGED <<envVars, askVars, chatVars, module_map, storeVars, cacheVars, calls,
                   op, root, k, target, client, coll, batch, code, chunks, failed,
                   rebuilds, midRebuild, ret, had, runs>>

\*      return dependency_graph
GraphReturn(p) ==
    /\ pc[p] = "g_files"
    /\ GraphFiltered(root[p]) \ DOMAIN dependency_graph[p] = {}
    /\ Return(p, "graph", <<dependency_graph[p]>>)
    /\ UNCHANGED <<envVars, askVars, chatVars, graphVars, storeVars, cacheVars, calls,
                   op, root, k, target, client, coll, batch, code, chunks, failed,
                   rebuilds, midRebuild, had, runs>>

GraphSteps(p) == GraphBuild(p) \/ GraphFile(p) \/ GraphReturn(p)

\* ------------------------------------- parse_file_with_treesitter, step by step
\*      with open(file_path) as f: code = f.read();  imports = extract_imports(code)
\*      parser = get_parser()
ParseRead(p) ==
    /\ pc[p] = "p_read"
    /\ LET file == tree[root[p]][target[p]]
       IN  IF file.readable
           THEN /\ code' = [code EXCEPT ![p] = file]
                /\ IF parser THEN Goto(p, "p_parse") ELSE Goto(p, "p_parser_new")
           ELSE /\ Goto(p, "p_fallback")
                /\ UNCHANGED code
    /\ UNCHANGED <<envVars, askVars, chatVars, graphVars, storeVars, cacheVars, calls, op, root, k, target, client,
                   coll, batch, chunks, failed, rebuilds, midRebuild, ret, had, runs>>

\*      PY_LANGUAGE = Language(tspython.language());  _parser = Parser(PY_LANGUAGE)
ParseNewParser(p) ==
    /\ pc[p] = "p_parser_new"
    /\ IF parserOk
       THEN /\ parser' = TRUE
            /\ built' = [built EXCEPT !["parser"] = @ + 1]
            /\ Goto(p, "p_parse")
       ELSE /\ Goto(p, "p_fallback")
            /\ UNCHANGED <<parser, built>>
    /\ UNCHANGED <<envVars, askVars, chatVars, graphVars, storeVars, chroma_client, embedding_model, calls, op, root,
                   k, target, client, coll, batch, code, chunks, failed, rebuilds,
                   midRebuild, ret, had, runs>>

\*      tree = parser.parse(bytes(code, 'utf8')) ... return chunks
ParseTree(p) ==
    /\ pc[p] = "p_parse"
    /\ LET body == TryBody(<<root[p], target[p]>>, code[p], TRUE, TRUE, code[p].parses)
       IN  /\ chunks' = [chunks EXCEPT ![p] = body.chunks]
           /\ IF body.raised
              THEN Goto(p, "p_fallback") /\ UNCHANGED ret
              ELSE Return(p, "chunks", body.chunks)
    /\ UNCHANGED <<envVars, askVars, chatVars, graphVars, storeVars, cacheVars, calls, op, root, k, target, client,
                   coll, batch, code, failed, rebuilds, midRebuild, had, runs>>

\*      except Exception as e:  try: ... f.read()[:5000] ...  except: pass
ParseFallback(p) ==
    /\ pc[p] = "p_fallback"
    /\ LET file == tree[root[p]][target[p]]
           r == InnerExcept(FallbackReread(<<root[p], target[p]>>, chunks[p], file,
                                            file.readable))
       IN  /\ chunks' = [chunks EXCEPT ![p] = r.chunks]
           /\ IF r.raised THEN Raise(p) ELSE Return(p, "chunks", r.chunks)
    /\ UNCHANGED <<envVars, askVars, chatVars, graphVars, storeVars, cacheVars, calls, op, root, k, target, client,
                   coll, batch, code, failed, rebuilds, midRebuild, had, runs>>

\* ---------------------------------------------------------- start_chat_session
\* The marker that opens and closes a code block in a response (three
\* backquotes in the source).
Fence == "~~~"

\*      str.strip()
Strip(s) ==
    LET kept == {i \in 1..Len(s) : Char(s, i) \notin SpaceChars}
    IN  IF kept = {} THEN ""
        ELSE SubSeq(s, CHOOSE i \in kept : \A j \in kept : i <= j, Max(kept))

\*      parts = command.strip().split(maxsplit=1); cmd = parts[0].lower()
Cmd(command) ==
    LET c == Strip(command) IN ToLower(SubSeq(c, 1, RunEnd(c, 1, CharsOf(c) \ SpaceChars)))

\*      lines = code_buffer.split('\n', 1)
SplitFirstLine(s) ==
    LET breaks == {i \in 1..Len(s) : Char(s, i) = "\n"}
    IN  IF breaks = {} THEN <<s>>
        ELSE LET at == CHOOSE i \in breaks : \A j \in breaks : i <= j
             IN  <<SubSeq(s, 1, at - 1), SubSeq(s, at + 1, Len(s))>>

\*      conversation_history[-20:]
HistoryCap == 20

LastOf(list, n) == SubSeq(list, Max({1, Len(list) - n + 1}), Len(list))

Message(role, content) == [role |-> role, content |-> content]

ChatGoto(l) == chat_pc' = l

\* handle_command leaves the caller's conversation_history as it is: it is
\* given the command and the directory only, and /clear prints a line.
handle_command(command, history) == history

\*      user_input = session.prompt(...)
\* and the three tests that follow it, up to the call of get_relevant_context.
ChatPrompt(inputs, most) ==
    /\ chat_pc = "prompt"
    /\ turns < most
    /\ \E line \in inputs :
        /\ user_input' = line
        /\ turns' = turns + 1
        /\ IF Strip(line) = ""
           THEN ChatGoto("prompt") /\ UNCHANGED <<conversation_history, cleared>>
           ELSE IF ToLower(line) \in {"exit", "quit", "q"}
           THEN ChatGoto("exit") /\ UNCHANGED <<conversation_history, cleared>>
           ELSE IF Char(line, 1) = "/"
           THEN /\ conversation_history' = handle_command(line, conversation_history)
                /\ cleared' = (cleared \/ Cmd(line) = "/clear")
                /\ ChatGoto("prompt")
           ELSE ChatGoto("context") /\ UNCHANGED <<conversation_history, cleared>>
    /\ UNCHANGED <<coreVars, log, respVars, applyVars>>

\* The prompt of the loop or the confirmation prompt raises EOFError: break.
ChatEOF ==
    /\ chat_pc \in {"prompt", "confirm"}
    /\ ChatGoto("exit")
    /\ UNCHANGED <<coreVars, loopVars, respVars, applyVars>>

\* Ctrl-C while the turn waits for the retrieval, a fragment, the answer or a
\* write, or before the history is updated: 'except KeyboardInterrupt:
\* continue'.
ChatInterrupt ==
    /\ chat_pc \in {"context", "stream", "infer", "confirm", "write", "history"}
    /\ ChatGoto("prompt")
    /\ UNCHANGED <<coreVars, loopVars, respVars, applyVars>>

\*      context = get_relevant_context(user_input, context_dir)
\* returns or raises; then the locals of the response are set and
\* generate_response_streaming is called with the history.
ChatContext(responses) ==
    /\ chat_pc = "context"
    /\ \/ /\ \E fragments \in responses : stream' = fragments
          /\ request' = [query |-> user_input, history |-> conversation_history]
          /\ response' = ""
          /\ in_code_block' = FALSE
          /\ code_block_started' = FALSE
          /\ code_buffer' = ""
          /\ shown_codes' = {}
          /\ plain_text_buffer' = ""
          /\ printed' = <<>>
          /\ received' = <<>>
          /\ ChatGoto("stream")
       \/ ChatGoto("prompt") /\ UNCHANGED respVars
    /\ UNCHANGED <<coreVars, loopVars, applyVars>>

Text(s) == [kind |-> "text", text |-> s]
Syntax(s) == [kind |-> "syntax", text |-> s]
Skipped == [kind |-> "skipped", text |-> ""]

\* The test that guards the print of the buffered text reads
\* code_block_started after the assignment two lines above it.
FlushesPlainText(buffer, started) == buffer # "" /\ ~started

\*      code_content of a block that ends
CodeContent(buffer) ==
    LET lines == SplitFirstLine(buffer)
    IN  IF Len(lines) > 1 THEN Strip(lines[2]) ELSE Strip(buffer)

\* One pass of 'for chunk in generate_response_streaming(...)'.
ChatChunk ==
    /\ chat_pc = "stream"
    /\ stream # <<>>
    /\ LET chunk == Head(stream) IN
        /\ stream' = Tail(stream)
        /\ received' = Append(received, chunk)
        /\ response' = response \o chunk
        /\ IF Contains(chunk, Fence)
           THEN IF ~in_code_block
                THEN /\ in_code_block' = TRUE
                     /\ code_block_started' = TRUE
                     /\ code_buffer' = ""
                     /\ IF FlushesPlainText(plain_text_buffer, TRUE)
                        THEN /\ printed' = Append(printed, Text(plain_text_buffer))
                             /\ plain_text_buffer' = ""
                        ELSE UNCHANGED <<printed, plain_text_buffer>>
                     /\ UNCHANGED shown_codes
                ELSE LET code_content == CodeContent(code_buffer) IN
                     /\ IF code_content # "" /\ code_content \notin shown_codes
                        THEN /\ printed' = Append(printed, Syntax(code_content))
                             /\ shown_codes' = shown_codes \cup {code_content}
                        ELSE /\ printed' = Append(printed, Skipped)
                             /\ UNCHANGED shown_codes
                     /\ in_code_block' = FALSE
                     /\ code_buffer' = ""
                     /\ UNCHANGED <<code_block_started, plain_text_buffer>>
           ELSE IF in_code_block
           THEN /\ code_buffer' = code_buffer \o chunk
                /\ UNCHANGED <<in_code_block, code_block_started, shown_codes,
                               plain_text_buffer, printed>>
           ELSE IF code_block_started
           THEN /\ printed' = Append(printed, Text(chunk))
                /\ UNCHANGED <<in_code_block, code_block_started, code_buffer,
                               shown_codes, plain_text_buffer>>
           ELSE /\ plain_text_buffer' = plain_text_buffer \o chunk
                /\ UNCHANGED <<in_code_block, code_block_started, code_buffer,
                               shown_codes, printed>>
    /\ ChatGoto("stream")
    /\ UNCHANGED <<coreVars, loopVars, request, applyVars>>

\* The generator is exhausted: the block left open is shown, then the rule.
ChatStreamEnd ==
    /\ chat_pc = "stream"
    /\ stream = <<>>
    /\ LET code_content == Strip(code_buffer) IN
       IF in_code_block /\ code_buffer # "" /\ code_content \notin shown_codes
       THEN /\ printed' = Append(printed, Syntax(code_content))
            /\ shown_codes' = shown_codes \cup {code_content}
       ELSE UNCHANGED <<printed, shown_codes>>
    /\ ChatGoto("infer")
    /\ UNCHANGED <<coreVars, loopVars, response, stream, request, in_code_block,
                   code_block_started, code_buffer, plain_text_buffer, received, applyVars>>

\* propose_file_changes(response, context_dir, inferred_files) is defined in
\* file_ops: it returns a list of (filepath, content), here the paths, for a
\* response that holds a code block, or raises.
ProposalLists == {<<>>, <<"calc.py">>, <<"calc.py", "utils/helper.py">>}

propose_file_changes(text) == IF Contains(text, Fence) THEN ProposalLists ELSE {<<>>}

\*      proposals = propose_file_changes(response, context_dir, inferred_files)
\*      if proposals: ... the prompt of the confirmation follows
ChatProposals ==
    /\ chat_pc = "infer"
    /\ \/ \E list \in propose_file_changes(response) :
            /\ proposals' = list
            /\ ChatGoto(IF list # <<>> THEN "confirm" ELSE "history")
       \/ ChatGoto("prompt") /\ UNCHANGED proposals
    /\ UNCHANGED <<coreVars, loopVars, respVars, confirm_response, todo, written>>

ConfirmNotNo(answer) == ToLower(answer) \notin {"n", "no"}

\*      confirm_response.lower() in ['y', 'yes']
ConfirmYes(answer) == ToLower(answer) \in {"y", "yes"}

\*      confirm_response = session.prompt(...'Apply these changes? [y/n] (n): ')
ChatConfirm(answers) ==
    /\ chat_pc = "confirm"
    /\ \E answer \in answers :
        /\ confirm_response' = answer
        /\ IF ConfirmYes(answer)
           THEN todo' = proposals /\ ChatGoto("write")
           ELSE todo' = <<>> /\ ChatGoto("history")
    /\ UNCHANGED <<coreVars, loopVars, respVars, proposals, written>>

\* write_file(filepath, content, confirm=False) is defined in file_ops: it
\* writes the file, or leaves it and returns, or raises.
write_file(files, filepath) == {files \cup {[turn |-> turns, path |-> filepath]}, files}

\*      for filepath, content in proposals: write_file(...)
ChatWrite ==
    /\ chat_pc = "write"
    /\ todo # <<>>
    /\ \/ /\ \E files \in write_file(written, Head(todo)) : written' = files
          /\ todo' = Tail(todo)
          /\ ChatGoto(IF Tail(todo) = <<>> THEN "history" ELSE "write")
       \/ ChatGoto("prompt") /\ UNCHANGED <<todo, written>>
    /\ UNCHANGED <<coreVars, loopVars, respVars, proposals, confirm_response>>

UpdateHistoryUncut(history, line, text) ==
    Append(Append(history, Message("user", line)), Message("assistant", text))

\*      conversation_history.append(...) twice, then the last 20 are kept
UpdateHistory(history, line, text) ==
    LET appended == Append(Append(history, Message("user", line)),
                           Message("assistant", text))
    IN  IF Len(appended) > HistoryCap THEN LastOf(appended, HistoryCap) ELSE appended

ChatHistory ==
    /\ chat_pc = "history"
    /\ conversation_history' = UpdateHistory(conversation_history, user_input, response)
    /\ log' = Append(Append(log, Message("user", user_input)),
                     Message("assistant", response))
    /\ cleared' = FALSE
    /\ ChatGoto("prompt")
    /\ UNCHANGED <<coreVars, user_input, turns, respVars, applyVars>>

\* ------------------------------------------------------------ the environment
\* Somebody writes, replaces or removes a file of a root.
EditTree ==
    /\ edits < MaxEdits
    /\ edits' = edits + 1
    /\ \E r \in Roots, f \in Files :
         \/ \E b \in FileBodies :
               /\ MkFile(b, tree[r][f].mtime) # tree[r][f]
               /\ tree' = [tree EXCEPT ![r][f] = MkFile(b, edits + 1)]
         \/ /\ tree[r][f].present
            /\ tree' = [tree EXCEPT ![r][f] = NoFile]
    /\ UNCHANGED <<context_path, parserOk, askVars, chatVars, graphVars, storeVars, cacheVars, calls, pc, op, root, k, target,
                   client, coll, batch, code, chunks, failed, rebuilds, midRebuild, ret, had, runs>>

Quiet == \A p \in Procs : pc[p] = "idle"

\* ------------------------------------------------------------- specifications
IndexSteps(p) ==
    \/ IndexGetClient(p) \/ IndexNewClient(p) \/ IndexDelete(p) \/ IndexCreate(p)
    \/ IndexGetModel(p) \/ IndexNewModel(p) \/ IndexBuild(p) \/ IndexAdd(p)

QuerySteps(p) ==
    \/ QueryGetClient(p) \/ QueryNewClient(p) \/ QueryLookup(p)
    \/ QueryGetModel(p) \/ QueryNewModel(p) \/ QueryEncode(p) \/ QueryRun(p)
    \/ ContextFallback(p) \/ SearchFallback(p)

ParseSteps(p) ==
    \/ ParseRead(p) \/ ParseNewParser(p) \/ ParseTree(p) \/ ParseFallback(p)

\* Callers of the retrieval operations, interleaved at every library call;
\* their queries name a file.
Next ==
    \E p \in Procs :
        \/ calls < MaxCalls /\ CallIndex(p)
        \/ calls < MaxCalls /\ CallContext(p) /\ query'[p] = "create calc.py"
        \/ calls < MaxCalls /\ CallSearch(p)
        \/ IndexSteps(p) \/ QuerySteps(p)

Spec == Init /\ [][Next]_vars

\* One call at a time, the tree edited between the calls.
SeqNext ==
    \/ calls < MaxRuns /\ CallIndex("t1")
    \/ IndexSteps("t1")
    \/ Quiet /\ EditTree

SpecSeq == Init /\ [][SeqNext]_vars

\* Callers of the chunk extractor, the tree edited while they run.
ParseNext ==
    \/ \E p \in Procs :
        \/ calls < MaxParses /\ CallParse(p)
        \/ ParseSteps(p)
    \/ EditTree

SpecParse == Init /\ [][ParseNext]_vars

\* One caller, one call after the other, on a tree that holds a file in the
\* store's directory and a file in a virtual environment, or does not.
ScanFiles == {"a.py", "b.py", ".code_assistant_db/x.py", "venv/lib.py"}

ScanTree(S) ==
    [r \in Roots |->
        [f \in ScanFiles |->
            IF f \in Files THEN InitTree[r][f]
            ELSE IF r = "r1" /\ f \in S
                 THEN MkFile([readable |-> TRUE, parses |-> TRUE, defs |-> <<>>,
                              size |-> 10, wide |-> {}, imports |-> <<"a">>], 0)
                 ELSE NoFile]]

InitScan == (\E S \in SUBSET (ScanFiles \ Files) : tree = ScanTree(S)) /\ InitRest

ScanNext ==
    \/ calls < MaxScans /\ CallIndex("t1")
    \/ calls < MaxScans /\ CallContext("t1")
    \/ calls < MaxScans /\ CallSearch("t1")
    \/ calls < MaxScans /\ CallGraph("t1")
    \/ IndexSteps("t1") \/ QuerySteps("t1") \/ GraphSteps("t1")

SpecScan == InitScan /\ [][ScanNext]_vars

\* infer_target_files, once, on a root where each of the two candidates of the
\* keyword 'auth' is or is not on disk.
InferFiles == {"auth.py", "authentication.py"}

InferTree(S) ==
    [r \in Roots |->
        [f \in InferFiles |->
            IF (r = "r1") = (f \in S)
            THEN MkFile([readable |-> TRUE, parses |-> TRUE, defs |-> <<>>, size |-> 10,
                         wide |-> {}, imports |-> <<>>], 0)
            ELSE NoFile]]

InitInfer == (\E S \in SUBSET InferFiles : tree = InferTree(S)) /\ InitRest

InferNext ==
    \/ calls < MaxInfers /\ CallInfer("t1")
    \/ InferRun("t1")

SpecInfer == InitInfer /\ [][InferNext]_vars

\* The chunk extractor on one file that stays as it is: the file is any of
\* ChunkBodies, found under r1 at the top and in a package directory.
ChunkFiles == {"a.py", "pkg/m.py"}

ChunkDefs ==
    { <<>>,
      <<FunctionDef(0, 0, 20)>>,
      <<FunctionDef(0, 0, 20), ClassDef(3, 30, 30)>>,
      <<Decorated(FunctionDef(1, 10, 20))>>,
      <<Decorated(FunctionDef(1, 10, 20)), ClassDef(3, 30, 30)>>,
      <<ClassDef(3, 30, 5970)>> }

ChunkBodies ==
    { b \in [readable : BOOLEAN, parses : BOOLEAN, defs : ChunkDefs,
             size : {0, 60, 6000}, wide : {{}, {8}, {25}}, imports : {<<"os">>}] :
        /\ \A i \in 1..Len(b.defs) : b.defs[i].at + b.defs[i].len <= b.size
        /\ \A w \in b.wide : w < b.size }

ChunkTree(b) ==
    [r \in Roots |-> [f \in ChunkFiles |-> IF r = "r1" THEN MkFile(b, 0) ELSE NoFile]]

InitChunk == (\E b \in ChunkBodies : tree = ChunkTree(b)) /\ InitRest

ChunkNext ==
    \E p \in Procs :
        \/ calls < MaxParses /\ CallParse(p)
        \/ ParseSteps(p)

SpecChunk == InitChunk /\ [][ChunkNext]_vars

\* build_file_dependency_graph on a root with two modules that may import
\* each other, a module in a package and a file of a virtual environment;
\* the loop is not held up for ever.
GraphFiles == {"a.py", "b.py", "pkg/c.py", "venv/lib.py"}

GraphBody(readable, syntax, imports) ==
    [readable |-> readable, syntax |-> syntax, parses |-> TRUE, defs |-> <<>>,
     size |-> 10, wide |-> {}, imports |-> imports]

GraphBodies ==
    {GraphBody(TRUE, TRUE, imports) :
        imports \in {<<"b">>, <<"a">>, <<"os", "pkg.c", "b", "venv.lib">>, <<"b", "sys", "b">>}}
    \cup {GraphBody(FALSE, TRUE, <<"b">>), GraphBody(TRUE, FALSE, <<"b", "a">>)}

GraphTree(x, y) ==
    [r \in Roots |->
        [f \in GraphFiles |->
            IF r # "r1" THEN NoFile
            ELSE IF f = "a.py" THEN MkFile(x, 0)
            ELSE IF f = "b.py" THEN MkFile(y, 0)
            ELSE MkFile(GraphBody(TRUE, TRUE, <<"a", "json">>), 0)]]

InitGraph == (\E x, y \in GraphBodies : tree = GraphTree(x, y)) /\ InitRest

GraphNext ==
    \/ calls < MaxScans /\ CallGraph("t1")
    \/ GraphSteps("t1")

SpecGraph == InitGraph /\ [][GraphNext]_vars /\ WF_vars(GraphSteps("t1"))

\* index_codebase on roots given by short relative paths, and on roots whose
\* own paths hold the name of a virtual environment and of a repository
\* directory.
RootPaths ==
    { [r \in Roots |-> r],
      [r \in Roots |-> IF r = "r1" THEN "/home/u/venv/app" ELSE "/srv/my.github.io"] }

InitRoot ==
    /\ \E S \in SUBSET (ScanFiles \ Files) : tree = ScanTree(S)
    /\ context_path \in RootPaths
    /\ InitState

RootNext ==
    \/ calls < MaxScans /\ CallIndex("t1")
    \/ IndexSteps("t1")

SpecRoot == InitRoot /\ [][RootNext]_vars

\* A chat session: what the user types, what the model streams and what the
\* user answers to 'Apply these changes?'.
ChatInputs == {"", "quit", "/clear", "/help", "hi"}

Responses ==
    { <<"Hello", " there">>,
      <<"Here: ", "~~~python:calc.py\n", "x = 1\n", "y = 2\n", "~~~", " done">>,
      <<"~~~python\n", "pass">>,
      <<"Error: down">> }

Answers == {"y", "Yes", "n", ""}

ChatNext ==
    \/ ChatPrompt(ChatInputs, MaxTurns)
    \/ ChatEOF
    \/ ChatInterrupt
    \/ ChatContext(Responses)
    \/ ChatChunk
    \/ ChatStreamEnd
    \/ ChatProposals
    \/ ChatConfirm(Answers)
    \/ ChatWrite
    \/ ChatHistory

SpecChat == Init /\ [][ChatNext]_vars

\* A long session: every line the user types is a new question, every
\* answer of the model plain text.
HistoryNext ==
    \/ ChatPrompt({"ask " \o ToString(turns + 1)}, MaxExchanges)
    \/ ChatInterrupt
    \/ ChatContext({<<"ok">>})
    \/ ChatChunk
    \/ ChatStreamEnd
    \/ ChatProposals
    \/ ChatHistory

SpecHistory == Init /\ [][HistoryNext]_vars


\* ======================================================================
\* Properties
\* ======================================================================
Queries == {"get_relevant_context", "search_codebase"}

Finished(p) == pc[p] = "idle" /\ ret[p].kind # "none"

\* The steps of index_codebase that let an exception out.
RebuildSteps == {"i_client_new", "i_create", "i_model_new", "i_build", "i_add"}

\* C1: get_relevant_context never raises: whatever fails in the store, the
\* encoder or the file system, the call returns a string.
C1_ContextNeverRaises ==
    \A p \in Procs : op[p] = "get_relevant_context" => ret[p].kind # "raise"

\* The text get_simple_context is documented to give: the n most recently
\* modified files, each cut to the size cap.
IsRecencyContext(val, r, n) ==
    \E order \in RecencyOrders(r) :
        /\ Len(val) = Min(n, Len(order))
        /\ \A i \in 1..Len(val) :
              /\ val[i].file = order[i]
              /\ val[i].text = Min(tree[r][order[i]].size, SizeCap)

\* C2: when embedding the query or querying the store fails,
\* get_relevant_context returns exactly the recency fallback: the k most
\* recently modified files, each contributing at most the size cap.
C2_QueryFailureFallsBack ==
    \A p \in Procs :
        ( /\ op[p] = "get_relevant_context"
          /\ Finished(p)
          /\ \/ "query" \in failed[p]
             \/ ret[p] = [kind |-> "raise", val |-> <<"q_encode">>] )
        => /\ ret[p].kind = "fallback"
           /\ IsRecencyContext(ret[p].val, root[p], k[p])

\* C3: when the collection is unavailable get_relevant_context rebuilds the
\* index exactly once, and a rebuild that fails ends in the recency fallback,
\* not in an exception.
C3_RebuildOnceThenFallback ==
    \A p \in Procs :
        (op[p] = "get_relevant_context" /\ "lookup" \in failed[p])
        => /\ rebuilds[p] = 1
           /\ (Finished(p) /\ ret[p].val # <<>> /\ ret[p].val[1] \in RebuildSteps)
                 => ret[p].kind = "fallback"

\* C4: no query observes a collection that exists but holds none or only
\* part of the entries of the rebuild that created it.
C4_NoPartialCollectionSeen ==
    \A p \in Procs : ~midRebuild[p]

Indexing == \E q \in Procs : op[q] = "index_codebase" /\ pc[q] # "idle"

\* C5: a query on a root whose collection already exists never deletes,
\* recreates or adds to that collection: with queries alone running, every
\* step of such a query leaves the index unchanged.
C5_QueriesReadOnly ==
    [][\A p \in Procs :
          (op[p] \in Queries /\ had[p] /\ pc'[p] # pc[p] /\ ~Indexing)
          => store'[root[p]] = store[root[p]]]_vars

\* C6: index_codebase is idempotent: two runs in a row on an unchanged tree
\* leave the same number of chunks and the same set of ids.
C6_ReindexIdempotent ==
    (Len(runs) = 2 /\ runs[1].root = runs[2].root /\ runs[1].files = runs[2].files)
    => (runs[1].count = runs[2].count /\ runs[1].ids = runs[2].ids)

C6_Witness ==
    /\ Len(runs) = 2
    /\ runs[1].root = runs[2].root
    /\ runs[1].files = runs[2].files
    /\ runs[1].count >= 2

\* The ids a tree gives rise to: one per top-level definition of a file that
\* parses, one for the whole of any other readable file.
TreeIds(r, files) ==
    UNION { IF ~files[f].present \/ ~files[f].readable THEN {}
            ELSE IF parserOk /\ files[f].parses /\ Len(files[f].defs) > 0
                 THEN { <<<<r, f>>, files[f].defs[i].start_line, i - 1>> :
                            i \in 1..Len(files[f].defs) }
                 ELSE { <<<<r, f>>, 0, 0>> } : f \in Files }

\* C7: every run is a full rebuild: after a run the collection holds exactly
\* the entries of the tree as that run read it, none from an earlier run.
C7_FullRebuild ==
    Len(runs) >= 1 =>
        /\ runs[1].ids = TreeIds(runs[1].root, runs[1].files)
        /\ runs[1].count = Cardinality(runs[1].ids)

C7_Witness ==
    /\ Len(runs) = 2
    /\ runs[1].root = runs[2].root
    /\ runs[2].ids # {}
    /\ runs[2].ids \cap runs[1].ids = {}
    /\ runs[1].ids # {}

\* C8: every operation called with root R works on the store persisted under
\* R, also after earlier calls with another root.
C8_StoreUnderOwnRoot ==
    \A p \in Procs : client[p] # None => client[p] = root[p]

\* C9: each process-wide resource is constructed at most once, under any
\* interleaving of its callers.
C9_BuiltAtMostOnce ==
    \A x \in Resources : built[x] <= 1

\* C10: parse_file_with_treesitter never raises past its boundary, whichever
\* step fails: it returns a list of chunks.
C10_ParseNeverRaises ==
    \A p \in Procs :
        (op[p] = "parse_file_with_treesitter" /\ Finished(p)) => ret[p].kind = "chunks"

\* The text was read, the parse or the parser failed, and the re-read failed too.
C10_Witness ==
    \E p \in Procs :
        /\ op[p] = "parse_file_with_treesitter"
        /\ Finished(p)
        /\ code[p].readable
        /\ ret[p] = [kind |-> "chunks", val |-> <<>>]

\* ------------------------------------------------------ the chunk extractor
ParseDone(p) == op[p] = "parse_file_with_treesitter" /\ Finished(p)

\* The file a caller of the chunk extractor named.
Parsed(p) == tree[root[p]][target[p]]

DefTypes == {"function", "class"}

\* C11: when the syntax parse (or the making of the parser) fails on a
\* readable file, the result is the single whole-file chunk, cut to the size
\* cap, with an empty import list; when the file cannot be read, the result
\* is the empty sequence.
C11_DegradesToFileChunk ==
    \A p \in Procs :
        ParseDone(p) =>
            /\ (Parsed(p).readable /\ (~parserOk \/ ~Parsed(p).parses))
                 => /\ Len(ret[p].val) = 1
                    /\ ret[p].val[1].chunk_type = "file"
                    /\ ret[p].val[1].from = 0
                    /\ ret[p].val[1].len = Min(Parsed(p).size, SizeCap)
                    /\ ret[p].val[1].imports = <<>>
            /\ ~Parsed(p).readable => ret[p].val = <<>>

\* A file longer than the cap, with imports, on which the syntax parse failed.
C11_Witness ==
    \E p \in Procs :
        /\ ParseDone(p)
        /\ Parsed(p).readable /\ parserOk /\ ~Parsed(p).parses
        /\ Parsed(p).size > SizeCap
        /\ Parsed(p).imports # <<>>
        /\ Len(ret[p].val) = 1

\* C12: a readable file without any top-level function or class definition
\* gives exactly one chunk, of type 'file', named after the base name of the
\* file, with at most SizeCap characters of content.
C12_NoDefsOneFileChunk ==
    \A p \in Procs :
        (ParseDone(p) /\ Parsed(p).readable /\ Parsed(p).defs = <<>>)
        => /\ Len(ret[p].val) = 1
           /\ ret[p].val[1].chunk_type = "file"
           /\ ret[p].val[1].name.base = Basename(target[p])
           /\ ret[p].val[1].len <= SizeCap

\* A file in a directory, longer than the cap, without definitions, parsed.
C12_Witness ==
    \E p \in Procs :
        /\ ParseDone(p)
        /\ Parsed(p).readable /\ parserOk /\ Parsed(p).parses
        /\ Parsed(p).defs = <<>>
        /\ Parsed(p).size > SizeCap
        /\ target[p] # Basename(target[p])
        /\ Len(ret[p].val) = 1

\* C13: the content of every function or class chunk is exactly the text of
\* its definition, also when characters of more than one byte stand before
\* or inside the definition.
C13_ContentIsDefinitionText ==
    \A p \in Procs :
        ParseDone(p) =>
            \A i \in 1..Len(ret[p].val) :
                ret[p].val[i].chunk_type \in DefTypes
                => \E j \in 1..Len(Parsed(p).defs) :
                      LET d == Parsed(p).defs[j]
                      IN  /\ d.start_line = ret[p].val[i].start_line
                          /\ ret[p].val[i].from = d.at
                          /\ ret[p].val[i].to = d.at + d.len

\* C14: every chunk the extractor produces has non-empty content, also for
\* an empty file.
C14_ContentNonEmpty ==
    \A p \in Procs :
        ParseDone(p) => \A i \in 1..Len(ret[p].val) : ret[p].val[i].len > 0

\* C15: for a file that parses, the chunks are the top-level function and
\* class definitions, decorated ones included, one chunk each, in source
\* order, each tagged with the type and the name of its definition.
C15_OneChunkPerDefinition ==
    \A p \in Procs :
        ( /\ ParseDone(p)
          /\ Parsed(p).readable /\ parserOk /\ Parsed(p).parses
          /\ Len(Parsed(p).defs) > 0 )
        => /\ Len(ret[p].val) = Len(Parsed(p).defs)
           /\ \A i \in 1..Len(ret[p].val) :
                 LET d == Parsed(p).defs[i]
                 IN  /\ ret[p].val[i].chunk_type = d.chunk_type
                     /\ ret[p].val[i].start_line = d.start_line
                     /\ ret[p].val[i].name.from = d.name_at
                     /\ ret[p].val[i].name.to = d.name_at + d.name_len

\* ------------------------------------------------------- the context string
ContextDone(p) ==
    op[p] = "get_relevant_context" /\ Finished(p) /\ ret[p].kind # "raise"

\* C16 as it stands: whenever infer_target_files gives a non-empty set, the
\* string get_relevant_context returns holds the instruction block naming
\* every inferred path, on the semantic path and on the fallback path.
C16_BlockOnEveryPath ==
    \A p \in Procs :
        (ContextDone(p) /\ TargetList(query[p], root[p]) # <<>>)
        => /\ ret[p].kind = "context"
           /\ Range(ret[p].val[2]) = Range(TargetList(query[p], root[p]))

\* C16, amended: the string returned on the semantic path holds the block
\* naming every inferred path, and none when nothing was inferred; the
\* string of the recency fallback is made of file parts alone.
C16_BlockOnSemanticPath ==
    \A p \in Procs :
        ContextDone(p) =>
            /\ ret[p].kind = "context"
                 => Range(ret[p].val[2]) = Range(TargetList(query[p], root[p]))
            /\ ret[p].kind = "fallback"
                 => \A i \in 1..Len(ret[p].val) :
                       ret[p].val[i] = FilePart(root[p], ret[p].val[i].file)

\* A query that names a file, answered from the index, with chunks.
C16_Witness ==
    \E p \in Procs :
        /\ ContextDone(p)
        /\ ret[p].kind = "context"
        /\ ret[p].val[1] # {}
        /\ ret[p].val[2] = <<"calc.py">>

\* C17: the string get_relevant_context returns is bounded by max_chunks and
\* the size cap alone: at most max_chunks chunks or files, each with at most
\* SizeCap characters of content.
C17_ContextSizeBounded ==
    \A p \in Procs :
        ContextDone(p) =>
            /\ ret[p].kind = "context"
                 => /\ Cardinality(ret[p].val[1]) <= k[p]
                    /\ \A e \in ret[p].val[1] : e.len <= SizeCap
            /\ ret[p].kind = "fallback"
                 => /\ Len(ret[p].val) <= k[p]
                    /\ \A i \in 1..Len(ret[p].val) : ret[p].val[i].text <= SizeCap

\* ------------------------------------------------------------- the scans
\* The file lies in the directory of the store, root/.code_assistant_db.
UnderStorage(f) == StartsAt(f, 1, ".code_assistant_db/")

\* C18: no file in the store's directory is indexed by index_codebase,
\* returned by get_simple_context, or made a node or the end of an edge by
\* build_file_dependency_graph.
C18_StorageDirNotScanned ==
    /\ \A r \in Roots : \A e \in store[r].entries : ~UnderStorage(e.file_path[2])
    /\ \A p \in Procs :
          /\ ret[p].kind = "fallback"
               => \A i \in 1..Len(ret[p].val) : ~UnderStorage(ret[p].val[i].file)
          /\ ret[p].kind = "graph"
               => \A f \in DOMAIN ret[p].val[1] :
                     /\ ~UnderStorage(f)
                     /\ \A i \in 1..Len(ret[p].val[1][f]) :
                           ~UnderStorage(ret[p].val[1][f][i])

\* ------------------------------------------------------ infer_target_files
InferDone(p) == op[p] = "infer_target_files" /\ Finished(p)

Verbs == Range(file_patterns)

\* A match of the verb's pattern that begins at i and that no match of the
\* same pattern beginning earlier runs over.
IsMatch(verb, q, i) ==
    /\ MatchAt(verb, q, ToLower(q), i).ok
    /\ ~\E j \in 1..(i - 1) :
            /\ MatchAt(verb, q, ToLower(q), j).ok
            /\ MatchAt(verb, q, ToLower(q), j).end >= i

\* The explicit-mention family: the path of every match of every pattern.
AllMentions(q) ==
    {MatchAt(verb, q, ToLower(q), i).path :
        <<verb, i>> \in {vi \in Verbs \X (1..Len(q)) : IsMatch(vi[1], q, vi[2])}}

\* The candidate is on disk under the root and no candidate listed before it is.
FirstOnDisk(r, files, i) ==
    Exists(r, files[i]) /\ \A j \in 1..(i - 1) : ~Exists(r, files[j])

\* The keyword family: for each keyword in the query, its first candidate on disk.
AllKeywordFiles(q, r) ==
    {keywords_to_files[n].files[i] :
        <<n, i>> \in {ni \in (1..Len(keywords_to_files)) \X (1..2) :
                        /\ KeywordMatches(keywords_to_files[ni[1]].words, ToLower(q))
                        /\ FirstOnDisk(r, keywords_to_files[ni[1]].files, ni[2])}}

\* A path-shaped token: path characters only, ending in a dot and an
\* extension of letters and digits, with something before the dot.
PathShaped(x) ==
    /\ \A i \in 1..Len(x) : IsPathChar(Char(x, i))
    /\ \E d \in 2..(Len(x) - 1) :
          Char(x, d) = "." /\ \A j \in (d + 1)..Len(x) : IsAlnum(Char(x, j))

\* C19: infer_target_files returns, without duplicates, the union of the two
\* rule families, the explicit family being every match of every verb
\* pattern; a query 'create X' with a path-shaped X gives a result with X.
C19_UnionOfAllMatches ==
    \A p \in Procs :
        InferDone(p) =>
            /\ \A i, j \in 1..Len(ret[p].val) : i # j => ret[p].val[i] # ret[p].val[j]
            /\ Range(ret[p].val) = AllMentions(query[p]) \cup AllKeywordFiles(query[p], root[p])
            /\ (StartsAt(query[p], 1, "create ") /\ PathShaped(SubSeq(query[p], 8, Len(query[p]))))
                 => SubSeq(query[p], 8, Len(query[p])) \in Range(ret[p].val)

\* Two matches of one pattern, and a path found twice and returned once.
C19_Witness ==
    \E p \in Procs :
        /\ InferDone(p)
        /\ Len(FindAll("create", query[p], ToLower(query[p]), 1)) = 2
        /\ Len(target_files[p]) = 3
        /\ Range(ret[p].val) = {"a.py", "b.py"}
        /\ Len(ret[p].val) = 2

AuthCandidates ==
    UNION {Range(keywords_to_files[n].files) :
             n \in {i \in 1..Len(keywords_to_files) :
                       "authentication" \in keywords_to_files[i].words}}

\* C21: for a query that mentions authentication and names no file,
\* infer_target_files returns at least one of the keyword's candidate names.
C21_SuggestsAuthCandidate ==
    \A p \in Procs :
        (/\ InferDone(p)
         /\ Contains(ToLower(query[p]), "authentication")
         /\ AllMentions(query[p]) = {})
            => Range(ret[p].val) \cap AuthCandidates # {}

\* The path has a '..' component.
ClimbsUp(path) == Contains("/" \o path \o "/", "/../")

\* C28: no path infer_target_files returns is absolute and none has a '..'
\* component.
C28_PathsStayUnderRoot ==
    \A p \in Procs :
        InferDone(p) =>
            \A i \in 1..Len(ret[p].val) :
                Char(ret[p].val[i], 1) # "/" /\ ~ClimbsUp(ret[p].val[i])

\* ------------------------------------------------------- the failed rebuild
\* C29: index_codebase that fails after it has created the collection anew
\* (while the model is loaded, the chunks are embedded or the batch is added)
\* does not leave the collection existing and empty.
C29_FailedRebuildLeavesNoEmptyCollection ==
    \A p \in Procs :
        (/\ op[p] = "index_codebase"
         /\ pc[p] = "idle"
         /\ ret[p].kind = "raise"
         /\ ret[p].val[1] \in {"i_model_new", "i_build", "i_add"})
            => ~(store[root[p]].exists /\ store[root[p]].entries = {})

\* --------------------------------------------------------- the root's path
\* The file lies in a directory, below the root, that bears an ignored name.
InIgnoredDir(f) ==
    \E pat \in IndexIgnorePatterns : Contains("/" \o f, "/" \o pat \o "/")

\* C30: the collection index_codebase returns holds every readable file under
\* the root that lies in no ignored directory, whatever the path of the root is.
C30_FilterBelowRootOnly ==
    \A p \in Procs :
        (op[p] = "index_codebase" /\ Finished(p) /\ ret[p].kind = "collection") =>
            \A f \in PresentFiles(root[p]) :
                (tree[root[p]][f].readable /\ ~InIgnoredDir(f)) =>
                    \E e \in store[ret[p].val[1].store].entries :
                        e.file_path = <<root[p], f>>

\* ------------------------------------------------------ the dependency graph
GraphDone(p) == op[p] = "build_file_dependency_graph" /\ Finished(p)

\* a.py imports b and nothing else, b.py imports a and nothing else.
Cycle(r) ==
    /\ {"a.py", "b.py"} \subseteq DOMAIN tree[r]
    /\ \A f \in {"a.py", "b.py"} : tree[r][f].readable /\ tree[r][f].syntax
    /\ tree[r]["a.py"].imports = <<"b">>
    /\ tree[r]["b.py"].imports = <<"a">>

\* C22: every call of build_file_dependency_graph returns, whatever imports
\* what, and for a.py importing b and b.py importing a it returns a graph with
\* a.py: [b.py] and b.py: [a.py].
C22_TerminatesOnCycles ==
    /\ \A p \in Procs :
          (op[p] = "build_file_dependency_graph" /\ pc[p] # "idle")
              ~> (GraphDone(p) /\ ret[p].kind = "graph")
    /\ [](\A p \in Procs :
            (GraphDone(p) /\ Cycle(root[p])) =>
                /\ ret[p].kind = "graph"
                /\ ret[p].val[1]["a.py"] = <<"b.py">>
                /\ ret[p].val[1]["b.py"] = <<"a.py">>)

C22_Witness ==
    \E p \in Procs :
        /\ GraphDone(p)
        /\ Cycle(root[p])
        /\ ret[p].val[1]["a.py"] = <<"b.py">>
        /\ ret[p].val[1]["b.py"] = <<"a.py">>
        /\ ret[p].val[1]["pkg/c.py"] = <<"a.py">>

\* The positions of the import names of a file that name a module of a
\* filtered file, in order.
LocalImports(r, f) ==
    LET names == tree[r][f].imports
    IN  SelectSeq([i \in 1..Len(names) |-> i],
                  LAMBDA i : \E g \in GraphFiltered(r) : ModuleName(g) = names[i])

\* C23: the graph has one key for each filtered file and no other; the value
\* of a file is, import by import in order, a filtered file that the import
\* names, imports that name no filtered file being left out; a file that
\* cannot be read or parsed has the empty list.
C23_GraphOfLocalImports ==
    \A p \in Procs :
        GraphDone(p) =>
            /\ ret[p].kind = "graph"
            /\ DOMAIN ret[p].val[1] = GraphFiltered(root[p])
            /\ \A f \in GraphFiltered(root[p]) :
                  LET file == tree[root[p]][f]
                      deps == ret[p].val[1][f]
                      at   == LocalImports(root[p], f)
                  IN  IF ~file.readable \/ ~file.syntax
                      THEN deps = <<>>
                      ELSE /\ Len(deps) = Len(at)
                           /\ \A n \in 1..Len(deps) :
                                 /\ deps[n] \in GraphFiltered(root[p])
                                 /\ ModuleName(deps[n]) = file.imports[at[n]]

\* One file cannot be parsed though it has imports, the other's four imports
\* are a.py's two local ones in order, and the package module has its entry.
C23_Witness ==
    \E p \in Procs :
        /\ GraphDone(p)
        /\ ~tree[root[p]]["a.py"].syntax /\ tree[root[p]]["a.py"].readable
        /\ tree[root[p]]["b.py"].imports = <<"os", "pkg.c", "b", "venv.lib">>
        /\ ret[p].val[1]["a.py"] = <<>>
        /\ ret[p].val[1]["b.py"] = <<"pkg/c.py", "b.py">>
        /\ ret[p].val[1]["pkg/c.py"] = <<"a.py">>

\* ------------------------------------------------------------ the chat session
\* C24: after the user issues /clear the conversation history is empty, and
\* the next model request is made with no earlier exchange in its history.
C24_ClearEmptiesHistory ==
    cleared =>
        /\ conversation_history = <<>>
        /\ chat_pc = "stream" => request.history = <<>>

Affirmative == {"y", "Y", "yes", "Yes", "YES"}

\* C25: a proposed file is written only by the write loop of a turn whose
\* confirmation prompt was answered 'y' or 'yes', and that loop is entered only
\* from the prompt of the same turn by such an answer; any other answer, an
\* interrupt or an error writes nothing.
C25_WrittenOnlyAfterYes ==
    [][ /\ \A w \in written' \ written :
              /\ chat_pc = "write"
              /\ confirm_response \in Affirmative
              /\ w.turn = turns
              /\ \E i \in 1..Len(proposals) : proposals[i] = w.path
        /\ (chat_pc' = "write" /\ chat_pc # "write") =>
              /\ chat_pc = "confirm"
              /\ confirm_response' \in Affirmative
        /\ chat_pc = "write" =>
              /\ confirm_response' = confirm_response
              /\ proposals' = proposals
              /\ turns' = turns
        /\ chat_pc # "write" => written' = written ]_vars

C25_Witness ==
    /\ chat_pc = "history"
    /\ confirm_response = "Yes"
    /\ written = {[turn |-> 1, path |-> "calc.py"], [turn |-> 1, path |-> "utils/helper.py"]}

\* The fragments of the response that stand outside every code block: those
\* without a marker that an even number of markers precede.
Outside(i) ==
    /\ ~Contains(received[i], Fence)
    /\ Cardinality({j \in 1..(i - 1) : Contains(received[j], Fence)}) % 2 = 0

Displayed(i) ==
    \E j \in 1..Len(printed) :
        printed[j].kind = "text" /\ Contains(printed[j].text, received[i])

\* C26: when a response has been streamed, every fragment received outside a
\* code block has been displayed.
C26_TextEventuallyDisplayed ==
    chat_pc = "infer" => \A i \in 1..Len(received) : Outside(i) => Displayed(i)

\* C27: after every completed turn the history holds at most 20 messages, an
\* even number of them, user and assistant alternating, and they are the most
\* recent messages in order.
C27_HistoryBounded ==
    /\ Len(conversation_history) <= 20
    /\ Len(conversation_history) % 2 = 0
    /\ \A i \in 1..Len(conversation_history) :
          conversation_history[i].role = (IF i % 2 = 1 THEN "user" ELSE "assistant")
    /\ conversation_history = SubSeq(log, Max({1, Len(log) - 19}), Len(log))

C27_Witness ==
    /\ chat_pc = "prompt"
    /\ Len(log) = 22
    /\ Len(conversation_history) = 20
    /\ conversation_history[1].content = "ask 2"

====
